---- MODULE Spec2Model ----
(***************************************************************************)
(* Milestone tracking engine of crypto-alert-bot-v2: the SQLite token      *)
(* store (token_db.py), the batched price adapter and milestone evaluator  *)
(* (price_tracker.py), silent discovery (dex_scraper.py), the check cycle  *)
(* and the shutdown of main (main.py, telegram_commands.py) and the retry  *)
(* of BirdeyeClient._get (birdeye_client.py).                              *)
(*                                                                         *)
(* Text values (addresses, milestone labels, the milestones_hit column)    *)
(* are TLA+ strings and are handled character by character as the Python   *)
(* code handles them.  Prices are integers in an arbitrary price unit;     *)
(* thresholds are kept in tenths so that "multiplier >= threshold" is the  *)
(* exact comparison current*10 >= tenths*alert.  Time is an integer count  *)
(* of clock ticks (the resolution of a stored timestamp).                  *)
(***************************************************************************)
EXTENDS Integers, Sequences, FiniteSets, TLC

VARIABLES
    seen_tokens,   \* the seen_tokens table, rows in rowid order
    now,           \* the clock, in ticks
    pc,            \* position of run_check
    new_tokens,    \* run_check: discovered tokens still to be saved
    tokens,        \* check_all_price_movements: the trackable snapshot
    i,             \* check_all_price_movements: start of the current batch (0-based)
    j,             \* check_all_price_movements: next token of the batch (1-based)
    prices,        \* check_all_price_movements: prices of the current batch
    all_alerts,    \* check_all_price_movements: events collected so far
    price_alerts,  \* run_check: events still to be sent
    requests,      \* check_all_price_movements: the calls of get_current_prices_batch
                   \* so far in this cycle (address list, whether upstream answered)
    running,       \* run_check invocations that have started and not returned
    swept_at,      \* the clock when the sweep of the current cycle ran
    call,          \* the most recent call: its name, arguments and outcome
    watch,         \* history: the (address, label) pair under observation
    produced,      \* history: events for the watched pair returned by check_price_milestones
    delivered,     \* history: alerts for the watched pair accepted by Telegram
    inserted,      \* history: rows inserted for the watched address
    removed,       \* history: rows deleted for the watched address
    unpriced,      \* history: the watched token as it was when a cycle found no
                   \* price for it, and whether a later cycle has started since
    shutdown_event,  \* main.py: the asyncio.Event set by signal_handler
    tasks          \* main.py: the positions of main, poll_loop and
                   \* run_command_listener, and the run_check calls started

vars == <<seen_tokens, now, pc, new_tokens, tokens, i, j, prices, all_alerts,
          price_alerts, requests, running, swept_at, call, watch, produced,
          delivered, inserted, removed, unpriced, shutdown_event, tasks>>

main_vars == <<shutdown_event, tasks>>

cycle_vars == <<pc, new_tokens, tokens, i, j, prices, all_alerts, price_alerts,
                requests, running, swept_at>>

history_vars == <<watch, produced, delivered, inserted, removed>>

-----------------------------------------------------------------------------
(* Bounds of the model *)

\* clock ticks per day (a real day has 86400 one-second ticks)
TicksPerDay == 1

\* the clock stops advancing after this many days
MaxDays == 9

\* pairs on one scraped Dexscreener page
MaxScraped == 2

\* quotes in one upstream price response inside a check cycle
MaxQuotes == 2

\* history counters saturate here
MaxCount == 2

\* days that pass in one wait between two check cycles
PollStep == 4

MaxNow == MaxDays * TicksPerDay

-----------------------------------------------------------------------------
(* Program constants *)

\* price_tracker.py: MILESTONES, in insertion order; thresholds in tenths
MILESTONES ==
    << [name |-> "+50%", tenths |-> 15],
       [name |-> "2x",   tenths |-> 20],
       [name |-> "5x",   tenths |-> 50],
       [name |-> "10x",  tenths |-> 100] >>

BATCH_SIZE == 30

TOKEN_EXPIRY_HOURS == 168

\* dex_scraper.py: get_new_filtered_tokens stops at this many new tokens
NEW_TOKEN_LIMIT == 30

\* price_tracker.py: BATCH_DELAY = 1.5 seconds, in tenths of a second
BATCH_DELAY == 15

Labels == { MILESTONES[k].name : k \in DOMAIN MILESTONES }

-----------------------------------------------------------------------------
(* Python text operations *)

LowerChar(c) ==
    CASE c = "A" -> "a"
      [] c = "B" -> "b"
      [] c = "M" -> "m"
      [] c = "T" -> "t"
      [] OTHER -> c

RECURSIVE lower(_)
\* str.lower()
lower(s) ==
    IF s = "" THEN "" ELSE LowerChar(SubSeq(s, 1, 1)) \o lower(Tail(s))

\* needle in hay, for a non-empty needle: the substring test of Python's `in` on str
Contains(hay, needle) ==
    \E k \in 1..(Len(hay) - Len(needle) + 1) :
        SubSeq(hay, k, k + Len(needle) - 1) = needle

RECURSIVE split(_)
\* str.split(",")
split(s) ==
    IF ~Contains(s, ",")
    THEN <<s>>
    ELSE LET k == CHOOSE n \in 1..Len(s) :
                      /\ SubSeq(s, n, n) = ","
                      /\ \A m \in 1..(n - 1) : SubSeq(s, m, m) # ","
         IN  <<SubSeq(s, 1, k - 1)>> \o split(SubSeq(s, k + 1, Len(s)))

Range(f) == { f[k] : k \in DOMAIN f }

\* faulty variant: the milestones_hit column is not read
hit_set_none(milestones_hit_str) == {}

\* price_tracker.py line 93
hit_set(milestones_hit_str) ==
    IF milestones_hit_str # "" THEN Range(split(milestones_hit_str)) ELSE {}

-----------------------------------------------------------------------------
(* token_db.py: the store *)

Row(address, price, t) ==
    [ token_address  |-> address,
      alert_price    |-> price,
      milestones_hit |-> "",
      first_seen_at  |-> t,
      alerted_at     |-> t ]

HasRow(db, address) == \E k \in DOMAIN db : db[k].token_address = address

RowOf(db, address) == db[CHOOSE k \in DOMAIN db : db[k].token_address = address]

is_token_seen(db, token_address) == HasRow(db, lower(token_address))

\* faulty variant: INSERT OR REPLACE
mark_token_seen_replace(db, token_address, alert_price, t) ==
    Append(SelectSeq(db, LAMBDA r : r.token_address # lower(token_address)),
           Row(lower(token_address), alert_price, t))

\* faulty variant: a plain INSERT into a table without the UNIQUE constraint
mark_token_seen_always(db, token_address, alert_price, t) ==
    Append(db, Row(lower(token_address), alert_price, t))

\* INSERT OR IGNORE: the UNIQUE token_address column rejects a second row
mark_token_seen(db, token_address, alert_price, t) ==
    IF HasRow(db, lower(token_address))
    THEN db
    ELSE Append(db, Row(lower(token_address), alert_price, t))

\* faulty variant: the SELECT without its WHERE clause
get_tokens_unfiltered(db) ==
    [ k \in DOMAIN db |->
        [ token_address  |-> db[k].token_address,
          alert_price    |-> db[k].alert_price,
          milestones_hit |-> db[k].milestones_hit ] ]

get_tokens_for_price_tracking(db) ==
    LET trackable == SelectSeq(db, LAMBDA r : r.alert_price > 0)
    IN  [ k \in DOMAIN trackable |->
            [ token_address  |-> trackable[k].token_address,
              alert_price    |-> trackable[k].alert_price,
              milestones_hit |-> trackable[k].milestones_hit ] ]

\* faulty variant: the UPDATE is never committed
update_milestone_hit_lost(db, token_address, milestone) == db

\* faulty variant: the UPDATE stores the new label alone
update_milestone_hit_overwrite(db, token_address, milestone) ==
    [ k \in DOMAIN db |->
        IF db[k].token_address = lower(token_address)
        THEN [ db[k] EXCEPT !.milestones_hit = milestone ]
        ELSE db[k] ]

\* faulty variant: the label is appended without the "not in" test
update_milestone_hit_append(db, token_address, milestone) ==
    [ k \in DOMAIN db |->
        IF db[k].token_address = lower(token_address)
        THEN [ db[k] EXCEPT !.milestones_hit =
                 IF @ # "" THEN @ \o "," \o milestone ELSE milestone ]
        ELSE db[k] ]

update_milestone_hit(db, token_address, milestone) ==
    [ k \in DOMAIN db |->
        IF db[k].token_address = lower(token_address)
        THEN LET current == db[k].milestones_hit
             IN  IF ~Contains(current, milestone)
                 THEN [ db[k] EXCEPT !.milestones_hit =
                          IF current # "" THEN current \o "," \o milestone
                                          ELSE milestone ]
                 ELSE db[k]
        ELSE db[k] ]

\* days_to_keep days, in ticks
DaysToTicks(days) == days * TicksPerDay

\* The COUNT and the DELETE are two statements and each evaluates
\* datetime('now') itself: t_count and t_delete are the clock at each.
clear_old_tokens(db, days_to_keep, t_count, t_delete) ==
    LET old(t) == { k \in DOMAIN db : db[k].alerted_at < t - DaysToTicks(days_to_keep) }
        count == Cardinality(old(t_count))
    IN  [ db    |-> IF count > 0
                    THEN SelectSeq(db, LAMBDA r :
                             ~(r.alerted_at < t_delete - DaysToTicks(days_to_keep)))
                    ELSE db,
          count |-> count ]

\* hours, in ticks
HoursToTicks(hours) == (hours * TicksPerDay) \div 24

\* token_db.clear_expired_tokens is imported and called by main.py but is not
\* defined in token_db.py; it is modelled on the store contract
\* expire_older_than(duration) of the specification.
clear_expired_tokens(db, hours, t) ==
    LET expired(r) == r.first_seen_at < t - HoursToTicks(hours)
    IN  [ db    |-> SelectSeq(db, LAMBDA r : ~expired(r)),
          count |-> Cardinality({ k \in DOMAIN db : expired(db[k]) }) ]

-----------------------------------------------------------------------------
(* price_tracker.py: the milestone evaluator *)

\* faulty variant: multiplier > threshold
reaches_strictly(current_price, alert_price, tenths) ==
    current_price * 10 > tenths * alert_price

\* multiplier >= threshold, with multiplier = current_price / alert_price
reaches(current_price, alert_price, tenths) ==
    current_price * 10 >= tenths * alert_price

RECURSIVE collect_new(_, _, _, _)
\* the loop over MILESTONES.items(), from entry k on
collect_new(k, hit, current_price, alert_price) ==
    IF k > Len(MILESTONES)
    THEN <<>>
    ELSE (IF /\ MILESTONES[k].name \notin hit
             /\ reaches(current_price, alert_price, MILESTONES[k].tenths)
          THEN <<MILESTONES[k].name>>
          ELSE <<>>)
         \o collect_new(k + 1, hit, current_price, alert_price)

\* check_price_milestones up to its second early return
new_milestones(token, current_price) ==
    IF token.alert_price <= 0 \/ current_price <= 0
    THEN <<>>
    ELSE collect_new(1, hit_set(token.milestones_hit), current_price, token.alert_price)

\* faulty variant: new_milestones[0]
best_milestone_first(new) == new[1]

\* new_milestones[-1]
best_milestone(new) == new[Len(new)]

\* faulty variant: only new_milestones[-1] is stored
record_highest_only(db, token_address, new, upto) ==
    IF upto = 0 THEN db ELSE update_milestone_hit(db, token_address, new[upto])

RECURSIVE record_all_reversed(_, _, _, _)
\* faulty variant: the loop runs over reversed(new_milestones)
record_all_reversed(db, token_address, new, upto) ==
    IF upto = 0
    THEN db
    ELSE update_milestone_hit(record_all_reversed(db, token_address, new, upto - 1),
                              token_address, new[Len(new) - upto + 1])

RECURSIVE record_all(_, _, _, _)
\* the first `upto` calls of the loop "for m in new_milestones: update_milestone_hit"
record_all(db, token_address, new, upto) ==
    IF upto = 0
    THEN db
    ELSE update_milestone_hit(record_all(db, token_address, new, upto - 1),
                              token_address, new[upto])

-----------------------------------------------------------------------------
(* price_tracker.py: the price adapter *)

NoPrices == << >>

RECURSIVE token_best_pairs_last(_, _)
\* faulty variant: liquidity >= the best so far, so the last of equal quotes wins
token_best_pairs_last(pairs, best) ==
    IF pairs = <<>>
    THEN best
    ELSE LET pair == Head(pairs)
             address == lower(pair.address)
         IN  token_best_pairs_last(Tail(pairs),
                 IF address = ""
                 THEN best
                 ELSE IF address \notin DOMAIN best \/ pair.liquidity >= best[address].liq
                      THEN (address :> [liq |-> pair.liquidity, price |-> pair.priceUsd])
                               @@ best
                      ELSE best)

RECURSIVE token_best_pairs(_, _)
\* the loop over the response's pairs, keeping the best pair of each address
token_best_pairs(pairs, best) ==
    IF pairs = <<>>
    THEN best
    ELSE LET pair == Head(pairs)
             address == lower(pair.address)
         IN  token_best_pairs(Tail(pairs),
                 IF address = ""
                 THEN best
                 ELSE IF address \notin DOMAIN best \/ pair.liquidity > best[address].liq
                      THEN (address :> [liq |-> pair.liquidity, price |-> pair.priceUsd])
                               @@ best
                      ELSE best)

\* the body of the try block, lines 42-75.  upstream.ok is FALSE when
\* requests.get, raise_for_status, response.json or the parsing of a pair raises.
fetch_prices(addresses, upstream) ==
    IF ~upstream.ok
    THEN [ raised |-> TRUE, prices |-> NoPrices ]
    ELSE LET best == token_best_pairs(upstream.pairs, NoPrices)
             priced == { a \in DOMAIN best : best[a].price > 0 }
         IN  [ raised |-> FALSE,
               prices |-> [ a \in priced |-> best[a].price ] ]

\* faulty variant: the try block without its except clause
get_current_prices_batch_uncaught(addresses, upstream) ==
    IF addresses = <<>>
    THEN [ sent |-> <<>>, raised |-> FALSE, prices |-> NoPrices ]
    ELSE [ sent   |-> addresses,
           raised |-> fetch_prices(addresses, upstream).raised,
           prices |-> fetch_prices(addresses, upstream).prices ]

\* `sent` is the address list put into the request URL (<<>>: no request made),
\* `raised` tells whether the call ends with an exception.
get_current_prices_batch(addresses, upstream) ==
    IF addresses = <<>>
    THEN [ sent |-> <<>>, raised |-> FALSE, prices |-> NoPrices ]
    ELSE IF fetch_prices(addresses, upstream).raised
         THEN [ sent |-> addresses, raised |-> FALSE, prices |-> NoPrices ]
         ELSE [ sent   |-> addresses,
                raised |-> FALSE,
                prices |-> fetch_prices(addresses, upstream).prices ]

-----------------------------------------------------------------------------
(* dex_scraper.py: discovery *)

RECURSIVE filter_new(_, _, _)
\* the loop of get_new_filtered_tokens over the scraped pairs
filter_new(db, scraped_pairs, found) ==
    IF scraped_pairs = <<>> \/ Len(found) >= NEW_TOKEN_LIMIT
    THEN found
    ELSE LET scraped == Head(scraped_pairs)
         IN  filter_new(db, Tail(scraped_pairs),
                 IF \/ ~scraped.has_details
                    \/ scraped.token_address = ""
                    \/ is_token_seen(db, scraped.token_address)
                 THEN found
                 ELSE Append(found, [ address   |-> scraped.token_address,
                                      price_usd |-> scraped.price_usd ]))

get_new_filtered_tokens(db, scraped_pairs) == filter_new(db, scraped_pairs, <<>>)

-----------------------------------------------------------------------------
(* Inputs of the check cycle *)

RawAddrs == {"a", "A", "b"}

Addrs == { lower(r) : r \in RawAddrs }

SeqsUpTo(S, n) == UNION { [1..m -> S] : m \in 0..n }

\* one row of the scraped page with what get_pair_details returns for it
ScrapedPairs ==
    { [ has_details |-> TRUE, token_address |-> "a", price_usd |-> 2 ],
      [ has_details |-> TRUE, token_address |-> "A", price_usd |-> 0 ],
      [ has_details |-> TRUE, token_address |-> "b", price_usd |-> 2 ],
      [ has_details |-> TRUE, token_address |-> "b", price_usd |-> -1 ],
      [ has_details |-> TRUE, token_address |-> "", price_usd |-> 2 ],
      [ has_details |-> FALSE, token_address |-> "", price_usd |-> 0 ] }

\* the pairs of one upstream price response inside a cycle
CycleQuotes ==
    { [ address |-> r, liquidity |-> 10, priceUsd |-> p ] :
          r \in Addrs, p \in {3, 20} }
    \cup { [ address |-> "a", liquidity |-> 10, priceUsd |-> 0 ],
           [ address |-> "A", liquidity |-> 90, priceUsd |-> 4 ] }

CycleUpstreams ==
    { [ ok |-> FALSE, pairs |-> <<>> ] }
    \cup { [ ok |-> TRUE, pairs |-> q ] : q \in SeqsUpTo(CycleQuotes, MaxQuotes) }

-----------------------------------------------------------------------------
(* main.py: the tasks of main *)

\* main has installed the signal handlers and is about to gather its two
\* coroutines; `checks` counts the calls of run_check, up to MaxChecks
NoTasks ==
    [ main |-> "gather", poll_loop |-> "startup", run_command_listener |-> "start",
      checks |-> 0 ]

-----------------------------------------------------------------------------
(* History *)

Bump(n) == IF n < MaxCount THEN n + 1 ELSE n

CountRows(db, address) ==
    Cardinality({ k \in DOMAIN db : db[k].token_address = address })

WasInserted(db, db2) == CountRows(db2, watch[1]) > CountRows(db, watch[1])

WasRemoved(db, db2) == CountRows(db2, watch[1]) < CountRows(db, watch[1])

\* the store changes from seen_tokens to db2
StoreHistory(db2) ==
    /\ inserted' = IF WasInserted(seen_tokens, db2) THEN Bump(inserted) ELSE inserted
    /\ removed' = IF WasRemoved(seen_tokens, db2) THEN Bump(removed) ELSE removed

IsWatched(alert) == alert.address = watch[1] /\ alert.milestone = watch[2]

\* the watched token was left without a price in this cycle
LeftUnpriced(token) == << [ token |-> token, carried |-> FALSE, swept |-> FALSE ] >>

\* a cycle starts and its sweep leaves the store as db2: what the previous
\* cycle left unpriced is carried into it, with whether the sweep deleted the row
CarryUnpriced(db2) ==
    unpriced' = IF unpriced # <<>>
                THEN << [ unpriced[1] EXCEPT !.carried = TRUE,
                                             !.swept = WasRemoved(seen_tokens, db2) ] >>
                ELSE unpriced

\* a cycle ends: what was carried into it and not reached is dropped
DropCarried ==
    unpriced' = IF unpriced # <<>> /\ unpriced[1].carried THEN <<>> ELSE unpriced

-----------------------------------------------------------------------------
(* The record of the most recent call *)

NoCall == [ op |-> "none", flip |-> FALSE ]

\* mark_token_seen(token_address, alert_price=alert_price), `saved` FALSE when
\* the INSERT raised
MarkCall(db, token_address, alert_price, saved, flip) ==
    [ op            |-> "mark_token_seen",
      flip          |-> flip,
      token_address |-> token_address,
      alert_price   |-> alert_price,
      seen_before   |-> is_token_seen(db, token_address),
      saved         |-> saved ]

\* no smart-wallet scan was made
NoScan == [ raised |-> FALSE, count |-> 0 ]

\* check_price_milestones(token, current_price); `stored` is the column in the
\* store when the call starts, `scan` what the smart-wallet scan met, `enriched`
\* and `scanned` whether the call got to lines 110 and 132
MilestoneCall(db, token, current_price, scan, outcome, flip) ==
    [ op            |-> "check_price_milestones",
      flip          |-> flip,
      token         |-> token,
      current_price |-> current_price,
      scan          |-> scan,
      enriched      |-> outcome # "nothing",
      scanned       |-> outcome \notin {"nothing", "enrichment raised"},
      stored        |-> IF HasRow(db, lower(token.token_address))
                        THEN RowOf(db, lower(token.token_address)).milestones_hit
                        ELSE "",
      new           |-> new_milestones(token, current_price),
      announced     |-> IF new_milestones(token, current_price) # <<>>
                        THEN best_milestone(new_milestones(token, current_price))
                        ELSE "",
      outcome       |-> outcome ]

-----------------------------------------------------------------------------
(* main.py: run_check, one action per step *)

NoLocals ==
    /\ new_tokens' = <<>>
    /\ tokens' = <<>>
    /\ i' = 0
    /\ j' = 1
    /\ prices' = NoPrices
    /\ all_alerts' = <<>>
    /\ price_alerts' = <<>>
    /\ requests' = <<>>

\* faulty variant: run_check without its except clause, the exception ends
\* poll_loop
RunCheckCrashes(failed) ==
    /\ pc' = "stopped"
    /\ NoLocals
    /\ running' = running - 1
    /\ call' = failed
    /\ DropCarried
    /\ UNCHANGED swept_at

\* an exception reaches the except clause of run_check: an error alert is sent
\* and run_check returns; `failed` is the call that raised
RunCheckFails(failed) ==
    /\ pc' = "idle"
    /\ NoLocals
    /\ running' = running - 1
    /\ call' = failed
    /\ DropCarried
    /\ UNCHANGED swept_at

\* a call that ended with an exception
Raised(op) == [ op |-> op, flip |-> FALSE, outcome |-> "raised" ]

\* poll_loop: the wait for the next poll time
PollWait ==
    /\ pc = "idle"
    /\ now + PollStep * TicksPerDay <= MaxNow
    /\ now' = now + PollStep * TicksPerDay
    /\ UNCHANGED <<seen_tokens, cycle_vars, call, history_vars, unpriced>>
    /\ UNCHANGED main_vars

\* faulty variant: run_check started by a timer, without waiting for the
\* previous invocation to return
SweepExpiredUnawaited ==
    /\ LET swept == clear_expired_tokens(seen_tokens, TOKEN_EXPIRY_HOURS, now)
       IN  /\ seen_tokens' = swept.db
           /\ StoreHistory(swept.db)
           /\ produced' = IF WasRemoved(seen_tokens, swept.db) THEN 0 ELSE produced
           /\ delivered' = IF WasRemoved(seen_tokens, swept.db) THEN 0 ELSE delivered
    /\ pc' = "discover"
    /\ running' = running + 1
    /\ swept_at' = now
    /\ call' = NoCall
    /\ CarryUnpriced(seen_tokens')
    /\ UNCHANGED <<now, new_tokens, tokens, i, j, prices, all_alerts, price_alerts,
                   requests, watch>>
    /\ UNCHANGED main_vars

\* faulty variant: run_check without the sweep
SweepSkipped ==
    /\ pc = "idle"
    /\ pc' = "discover"
    /\ running' = running + 1
    /\ swept_at' = now
    /\ call' = NoCall
    /\ CarryUnpriced(seen_tokens)
    /\ UNCHANGED <<seen_tokens, now, new_tokens, tokens, i, j, prices, all_alerts,
                   price_alerts, requests, history_vars>>
    /\ UNCHANGED main_vars

\* run_check line 117, reached when poll_loop awaits run_check (lines 78, 98)
SweepExpired ==
    /\ pc = "idle"
    /\ LET swept == clear_expired_tokens(seen_tokens, TOKEN_EXPIRY_HOURS, now)
       IN  /\ seen_tokens' = swept.db
           /\ StoreHistory(swept.db)
           /\ produced' = IF WasRemoved(seen_tokens, swept.db) THEN 0 ELSE produced
           /\ delivered' = IF WasRemoved(seen_tokens, swept.db) THEN 0 ELSE delivered
    /\ pc' = "discover"
    /\ running' = running + 1
    /\ swept_at' = now
    /\ call' = NoCall
    /\ CarryUnpriced(seen_tokens')
    /\ UNCHANGED <<now, new_tokens, tokens, i, j, prices, all_alerts, price_alerts,
                   requests, watch>>
    /\ UNCHANGED main_vars

\* run_check line 121: the scraper answers with a page, or raises
Discover ==
    /\ pc = "discover"
    /\ \/ \E page \in SeqsUpTo(ScrapedPairs, MaxScraped) :
            /\ new_tokens' = get_new_filtered_tokens(seen_tokens, page)
            /\ pc' = "process"
            /\ UNCHANGED <<tokens, i, j, prices, all_alerts, price_alerts, requests,
                           running, swept_at, call, unpriced>>
       \/ RunCheckFails(Raised("get_new_filtered_tokens"))
    /\ UNCHANGED <<seen_tokens, now, history_vars>>
    /\ UNCHANGED main_vars

\* run_check lines 126-129: process_token -> save_token_to_db -> mark_token_seen.
\* A sqlite3.Error is caught in mark_token_seen, any other exception in
\* process_token; either way nothing is saved.  The sleep that follows (line
\* 129) is not bounded by the polling interval: the clock may advance by as much
\* as a wait between two cycles.
ProcessToken ==
    /\ pc = "process"
    /\ new_tokens # <<>>
    /\ \E elapsed \in {0, PollStep * TicksPerDay} :
          /\ now + elapsed <= MaxNow
          /\ now' = now + elapsed
    /\ \E saved \in BOOLEAN :
          LET token_info == Head(new_tokens)
              db2 == IF saved
                     THEN mark_token_seen(seen_tokens, token_info.address,
                                          token_info.price_usd, now)
                     ELSE seen_tokens
          IN  /\ seen_tokens' = db2
              /\ StoreHistory(db2)
              /\ call' = MarkCall(seen_tokens, token_info.address,
                                  token_info.price_usd, saved, FALSE)
    /\ new_tokens' = Tail(new_tokens)
    /\ UNCHANGED <<pc, tokens, i, j, prices, all_alerts, price_alerts,
                   requests, running, swept_at, watch, produced, delivered, unpriced>>
    /\ UNCHANGED main_vars

\* check_all_price_movements lines 168-176: the read of the trackable list
LoadTrackable ==
    /\ pc = "process"
    /\ new_tokens = <<>>
    /\ \/ LET loaded == get_tokens_for_price_tracking(seen_tokens)
          IN  /\ tokens' = loaded
              /\ pc' = IF loaded = <<>> THEN "dispatch" ELSE "batch"
              /\ call' = NoCall
              /\ UNCHANGED <<new_tokens, i, j, prices, all_alerts, price_alerts,
                             requests, running, swept_at, unpriced>>
       \/ RunCheckFails(Raised("get_tokens_for_price_tracking"))
    /\ UNCHANGED <<seen_tokens, now, history_vars>>
    /\ UNCHANGED main_vars

\* faulty variant: tokens[i:i + BATCH_SIZE + 1]
BatchOneMore ==
    SubSeq(tokens, i + 1, IF i + BATCH_SIZE + 1 < Len(tokens) THEN i + BATCH_SIZE + 1
                                                             ELSE Len(tokens))

\* tokens[i:i + BATCH_SIZE]
Batch == SubSeq(tokens, i + 1, IF i + BATCH_SIZE < Len(tokens) THEN i + BATCH_SIZE
                                                             ELSE Len(tokens))

\* upstream fails, answers without pairs, or quotes the last address of the
\* batch at 1.5 times its baseline
BatchUpstreams(addresses) ==
    { [ ok |-> FALSE, pairs |-> <<>> ],
      [ ok |-> TRUE, pairs |-> <<>> ],
      [ ok |-> TRUE, pairs |-> << [ address   |-> addresses[Len(addresses)],
                                    liquidity |-> 10,
                                    priceUsd  |-> 3 ] >> ] }

\* check_all_price_movements lines 180-183, the upstream answer drawn from
\* BatchUpstreams for a long list and from CycleUpstreams otherwise; an
\* exception of the adapter would not be caught before run_check
ResolveBatchOf(long_list) ==
    /\ pc = "batch"
    /\ LET addresses == [ k \in DOMAIN Batch |-> Batch[k].token_address ]
       IN  \E upstream \in IF long_list THEN BatchUpstreams(addresses)
                                        ELSE CycleUpstreams :
              LET result == get_current_prices_batch(addresses, upstream)
              IN  IF result.raised
                  THEN RunCheckFails(Raised("get_current_prices_batch"))
                  ELSE /\ prices' = result.prices
                       /\ requests' = Append(requests, [ addresses |-> result.sent,
                                                         answered  |-> upstream.ok ])
                       /\ j' = 1
                       /\ pc' = "evaluate"
                       /\ UNCHANGED <<new_tokens, tokens, i, all_alerts, price_alerts,
                                      running, swept_at, call, unpriced>>
    /\ UNCHANGED <<seen_tokens, now, history_vars>>
    /\ UNCHANGED main_vars

ResolveBatch == ResolveBatchOf(FALSE)

\* what the smart-wallet scan of lines 135-137 meets: an exception (Chain(chain)
\* of an unknown chain, BirdeyeClient() without API key, an error of the count),
\* or a count of wallets
ScanOutcomes == { [ raised |-> TRUE, count |-> 0 ], [ raised |-> FALSE, count |-> 1 ] }

\* faulty variant: the scan without its try and except
smart_money_scan_uncaught(scan) == scan

\* lines 131-139: smart_count stays 0 when the scan raises
smart_money_scan(scan) ==
    [ raised |-> FALSE, count |-> IF scan.raised THEN 0 ELSE scan.count ]

\* the alert dict of check_price_milestones lines 145-155
Alert(token, current_price, new, smart_wallets) ==
    [ address       |-> token.token_address,
      milestone     |-> best_milestone(new),
      smart_wallets |-> smart_wallets,
      alert_price   |-> token.alert_price,
      current_price |-> current_price ]

\* check_price_milestones(token, current_price), called at line 192 of
\* check_all_price_movements.  With new milestones it either
\*   - raises in the enrichment (get_token_info, analyze_token_narrative),
\*   - raises in its k-th update_milestone_hit (a sqlite3 error), k - 1 labels stored,
\*   - or stores every new label and returns one alert.
\* An exception is not caught before run_check.
check_price_milestones(token, current_price) ==
    LET new == new_milestones(token, current_price)
    IN  IF new = <<>>
        THEN /\ j' = j + 1
             /\ call' = MilestoneCall(seen_tokens, token, current_price, NoScan,
                                      "nothing", FALSE)
             /\ unpriced' = IF token.token_address = watch[1] THEN <<>> ELSE unpriced
             /\ UNCHANGED <<seen_tokens, pc, new_tokens, tokens, i, prices, all_alerts,
                            price_alerts, requests, running, swept_at, produced>>
        ELSE \/ /\ RunCheckFails(MilestoneCall(seen_tokens, token, current_price, NoScan,
                                               "enrichment raised", FALSE))
                /\ UNCHANGED <<seen_tokens, produced>>
             \/ \E scan \in ScanOutcomes :
                   LET scanned == smart_money_scan(scan)
                       alert == Alert(token, current_price, new, scanned.count)
                   IN  IF scanned.raised
                       THEN /\ RunCheckFails(MilestoneCall(seen_tokens, token, current_price,
                                                           scan, "scan raised", FALSE))
                            /\ UNCHANGED <<seen_tokens, produced>>
                       ELSE \/ \E done \in 0..(Len(new) - 1) :
                                  /\ seen_tokens' = record_all(seen_tokens,
                                                        token.token_address, new, done)
                                  /\ RunCheckFails(MilestoneCall(seen_tokens, token,
                                         current_price, scan, "store raised", FALSE))
                                  /\ UNCHANGED produced
                            \/ /\ seen_tokens' = record_all(seen_tokens,
                                                      token.token_address, new, Len(new))
                               /\ all_alerts' = Append(all_alerts, alert)
                               /\ produced' = IF IsWatched(alert)
                                              THEN Bump(produced) ELSE produced
                               /\ call' = MilestoneCall(seen_tokens, token, current_price,
                                                        scan, "alert", FALSE)
                               /\ j' = j + 1
                               /\ unpriced' = IF token.token_address = watch[1]
                                              THEN <<>> ELSE unpriced
                               /\ UNCHANGED <<pc, new_tokens, tokens, i, prices,
                                              price_alerts, requests, running, swept_at>>

\* prices.get(address): the price, or None (written 0: both are falsy and the
\* adapter returns no price that is not positive)
prices_get(resolved, address) ==
    IF address \in DOMAIN resolved THEN resolved[address] ELSE 0

\* faulty variant: the evaluation without the test of the price
is_priced_always(current_price) == TRUE

\* line 190: if current_price
is_priced(current_price) == current_price # 0

\* check_all_price_movements lines 186-193: the next token of the batch
EvaluateToken ==
    /\ pc = "evaluate"
    /\ j <= Len(Batch)
    /\ LET token == Batch[j]
           address == lower(token.token_address)
           current_price == prices_get(prices, address)
       IN  IF is_priced(current_price)
           THEN check_price_milestones(token, current_price)
           ELSE /\ j' = j + 1
                /\ call' = NoCall
                /\ unpriced' = IF token.token_address = watch[1]
                               THEN LeftUnpriced(token) ELSE unpriced
                /\ UNCHANGED <<seen_tokens, pc, new_tokens, tokens, i, prices,
                               all_alerts, price_alerts, requests, running, swept_at,
                               produced>>
    /\ UNCHANGED <<now, watch, delivered, inserted, removed>>
    /\ UNCHANGED main_vars

\* asyncio.sleep(delay), delay in tenths of a second
SleepCall(delay) == [ op |-> "sleep", flip |-> FALSE, delay |-> delay ]

\* faulty variant: the sleep after every batch
delay_follows_always(start, n) == TRUE

\* line 196: the test before the sleep, for the batch that starts at `start`
\* of a list of n tokens
delay_follows(start, n) == start + BATCH_SIZE < n

\* check_all_price_movements lines 195-204: after the last token of a batch,
\* the sleep and the next value of the range(0, len(tokens), BATCH_SIZE) loop
EndBatch ==
    /\ pc = "evaluate"
    /\ j > Len(Batch)
    /\ IF i + BATCH_SIZE < Len(tokens)
       THEN /\ i' = i + BATCH_SIZE
            /\ pc' = "batch"
            /\ UNCHANGED price_alerts
       ELSE /\ price_alerts' = all_alerts
            /\ pc' = "dispatch"
            /\ UNCHANGED i
    /\ call' = IF delay_follows(i, Len(tokens)) THEN SleepCall(BATCH_DELAY) ELSE NoCall
    /\ UNCHANGED <<seen_tokens, now, new_tokens, tokens, j, prices, all_alerts,
                   requests, running, swept_at, history_vars, unpriced>>
    /\ UNCHANGED main_vars

\* run_check lines 137-139: send_price_movement_alert returns True when Telegram
\* accepted the message and False otherwise; it does not raise
Dispatch ==
    /\ pc = "dispatch"
    /\ price_alerts # <<>>
    /\ \E sent \in BOOLEAN :
          delivered' = IF sent /\ IsWatched(Head(price_alerts))
                       THEN Bump(delivered) ELSE delivered
    /\ price_alerts' = Tail(price_alerts)
    /\ UNCHANGED <<seen_tokens, now, pc, new_tokens, tokens, i, j, prices, all_alerts,
                   requests, running, swept_at, call, watch, produced, inserted,
                   removed, unpriced>>
    /\ UNCHANGED main_vars

\* run_check lines 141-143, and its return
FinishCheck ==
    /\ pc = "dispatch"
    /\ price_alerts = <<>>
    /\ pc' = "idle"
    /\ NoLocals
    /\ running' = running - 1
    /\ call' = NoCall
    /\ DropCarried
    /\ UNCHANGED <<seen_tokens, now, swept_at, history_vars>>
    /\ UNCHANGED main_vars

-----------------------------------------------------------------------------
(* The program *)

Init ==
    /\ seen_tokens = <<>>
    /\ now = 0
    /\ pc = "idle"
    /\ new_tokens = <<>>
    /\ tokens = <<>>
    /\ i = 0
    /\ j = 1
    /\ prices = NoPrices
    /\ all_alerts = <<>>
    /\ price_alerts = <<>>
    /\ requests = <<>>
    /\ running = 0
    /\ swept_at = 0
    /\ call = NoCall
    /\ watch \in {"a"} \X Labels
    /\ produced = 0
    /\ delivered = 0
    /\ inserted = 0
    /\ removed = 0
    /\ unpriced = <<>>
    /\ shutdown_event = FALSE
    /\ tasks = NoTasks

Next ==
    \/ PollWait
    \/ SweepExpired
    \/ Discover
    \/ ProcessToken
    \/ LoadTrackable
    \/ ResolveBatch
    \/ EvaluateToken
    \/ EndBatch
    \/ Dispatch
    \/ FinishCheck

Spec == Init /\ [][Next]_vars

-----------------------------------------------------------------------------
(* The store functions called directly, in any order and with any arguments *)

ApiInit == Init /\ watch = <<"a", "2x">>

Flip == ~call.flip

StorePrices == {2, 3}

\* the clock of the store calls stops here
MaxStoreNow == 1

CallMarkTokenSeen ==
    /\ \E r \in RawAddrs, p \in StorePrices :
          /\ seen_tokens' = mark_token_seen(seen_tokens, r, p, now)
          /\ call' = MarkCall(seen_tokens, r, p, TRUE, Flip)
    /\ UNCHANGED <<now, cycle_vars, history_vars, unpriced>>
    /\ UNCHANGED main_vars

\* the row of "b" is the bystander: no label is recorded for it
CallUpdateMilestoneHit ==
    /\ \E r \in {"a", "A"}, m \in Labels :
          /\ seen_tokens' = update_milestone_hit(seen_tokens, r, m)
          /\ call' = [ op |-> "update_milestone_hit", flip |-> Flip,
                       token_address |-> r, milestone |-> m,
                       stored |-> IF HasRow(seen_tokens, lower(r))
                                  THEN RowOf(seen_tokens, lower(r)).milestones_hit
                                  ELSE "" ]
    /\ UNCHANGED <<now, cycle_vars, history_vars, unpriced>>
    /\ UNCHANGED main_vars

StoreTick ==
    /\ now < MaxStoreNow
    /\ now' = now + 1
    /\ call' = [ op |-> "tick", flip |-> Flip ]
    /\ UNCHANGED <<seen_tokens, cycle_vars, history_vars, unpriced>>
    /\ UNCHANGED main_vars

StoreNext ==
    \/ CallMarkTokenSeen
    \/ CallUpdateMilestoneHit
    \/ StoreTick

SpecStore == ApiInit /\ [][StoreNext]_vars

-----------------------------------------------------------------------------
(* Insertion, the clock and clear_old_tokens *)

DaysToKeep == {0, 1, 7}

ClockTick ==
    /\ now < MaxNow
    /\ now' = now + 1
    /\ call' = [ op |-> "tick", flip |-> Flip ]
    /\ UNCHANGED <<seen_tokens, cycle_vars, history_vars, unpriced>>
    /\ UNCHANGED main_vars

\* the clock may advance between the COUNT and the DELETE statement
CallClearOldTokens ==
    /\ \E d \in DaysToKeep, t_delete \in now..(now + 1) :
          /\ t_delete <= MaxNow
          /\ LET cleared == clear_old_tokens(seen_tokens, d, now, t_delete)
             IN  /\ seen_tokens' = cleared.db
                 /\ call' = [ op |-> "clear_old_tokens", flip |-> Flip,
                              days_to_keep |-> d, t_count |-> now,
                              count |-> cleared.count ]
          /\ now' = t_delete
    /\ UNCHANGED <<cycle_vars, history_vars, unpriced>>
    /\ UNCHANGED main_vars

ExpiryNext ==
    \/ CallMarkTokenSeen
    \/ ClockTick
    \/ CallClearOldTokens

SpecExpiry == ApiInit /\ [][ExpiryNext]_vars

-----------------------------------------------------------------------------
(* The evaluator and the price adapter applied to any input *)

LabelLists ==
    { s \in SeqsUpTo(Labels, Len(MILESTONES)) :
          \A p, q \in DOMAIN s : p # q => s[p] # s[q] }

RECURSIVE join(_)
\* ",".join(labels)
join(labels) ==
    IF labels = <<>> THEN ""
    ELSE IF Len(labels) = 1 THEN labels[1]
    ELSE labels[1] \o "," \o join(Tail(labels))

EvalAlertPrices == {-1, 0, 1, 2, 10}

EvalCurrentPrices == {-1, 0, 1, 2, 3, 4, 5, 9, 10, 14, 15, 19, 20, 21, 99, 100, 200}

EvalInputs ==
    { [ op |-> "input", flip |-> FALSE, fn |-> "check_price_milestones",
        token |-> [ token_address |-> "a", alert_price |-> a,
                    milestones_hit |-> join(hit) ],
        current_price |-> c ] :
          a \in EvalAlertPrices, c \in EvalCurrentPrices, hit \in LabelLists }

\* check_price_milestones for a token dict that has no row in the store, the
\* enrichment succeeding: every update_milestone_hit finds no row
CallCheckPriceMilestones ==
    /\ call.op = "input"
    /\ call.fn = "check_price_milestones"
    /\ LET new == new_milestones(call.token, call.current_price)
       IN  /\ seen_tokens' =
                  record_all(seen_tokens, call.token.token_address, new, Len(new))
           /\ \E scan \in IF new = <<>> THEN {NoScan} ELSE ScanOutcomes :
                  call' = MilestoneCall(seen_tokens, call.token, call.current_price, scan,
                                        IF new = <<>> THEN "nothing" ELSE "alert", Flip)
    /\ UNCHANGED <<now, cycle_vars, history_vars, unpriced>>
    /\ UNCHANGED main_vars

\* quotes of one upstream response
MaxApiQuotes == 3

ApiQuotes ==
    { [ address |-> r, liquidity |-> l, priceUsd |-> p ] :
          r \in {"a", "A"}, l \in {10, 90}, p \in {0, 1, 2} }
    \cup { [ address |-> "b", liquidity |-> 10, priceUsd |-> 1 ],
           [ address |-> "", liquidity |-> 90, priceUsd |-> 2 ] }

ApiUpstreams ==
    { [ ok |-> FALSE, pairs |-> <<>> ] }
    \cup { [ ok |-> TRUE, pairs |-> q ] : q \in SeqsUpTo(ApiQuotes, MaxApiQuotes) }

\* the address lists a call is tried with: none, one, a full batch, one more
AddressLists ==
    { [ k \in 1..n |-> IF k % 2 = 1 THEN "a" ELSE "b" ] :
          n \in {0, 1, BATCH_SIZE, BATCH_SIZE + 1} }

BatchInputs ==
    { [ op |-> "input", flip |-> FALSE, fn |-> "get_current_prices_batch",
        addresses |-> addresses, upstream |-> upstream ] :
          addresses \in AddressLists, upstream \in ApiUpstreams }

CallGetCurrentPricesBatch ==
    /\ call.op = "input"
    /\ call.fn = "get_current_prices_batch"
    /\ LET result == get_current_prices_batch(call.addresses, call.upstream)
       IN  call' = [ op |-> "get_current_prices_batch", flip |-> Flip,
                     addresses |-> call.addresses, upstream |-> call.upstream,
                     sent |-> result.sent, raised |-> result.raised,
                     prices |-> result.prices ]
    /\ UNCHANGED <<seen_tokens, now, cycle_vars, history_vars, unpriced>>
    /\ UNCHANGED main_vars

\* the state before one call: the store is empty and the arguments are chosen
PureInit ==
    /\ seen_tokens = <<>>
    /\ now = 0
    /\ pc = "idle"
    /\ new_tokens = <<>>
    /\ tokens = <<>>
    /\ i = 0
    /\ j = 1
    /\ prices = NoPrices
    /\ all_alerts = <<>>
    /\ price_alerts = <<>>
    /\ requests = <<>>
    /\ running = 0
    /\ swept_at = 0
    /\ call \in EvalInputs \cup BatchInputs
    /\ watch = <<"a", "2x">>
    /\ produced = 0
    /\ delivered = 0
    /\ inserted = 0
    /\ removed = 0
    /\ unpriced = <<>>
    /\ shutdown_event = FALSE
    /\ tasks = NoTasks

PureNext ==
    \/ CallCheckPriceMilestones
    \/ CallGetCurrentPricesBatch

SpecPure == PureInit /\ [][PureNext]_vars

-----------------------------------------------------------------------------
(* check_all_price_movements over a long trackable list *)

\* full batches in the trackable list
MaxBatches == 2

AddrChars == <<"c", "d", "e", "f", "g", "h", "k", "m", "n", "p">>

\* the k-th of 100 distinct lowercase addresses
AddrOf(k) == AddrChars[((k - 1) \div 10) + 1] \o AddrChars[((k - 1) % 10) + 1]

\* lengths of the trackable list: none, one, and a whole number of batches
\* with and without one more token
BatchLens ==
    {0, 1} \cup { m * BATCH_SIZE : m \in 1..MaxBatches }
           \cup { m * BATCH_SIZE + 1 : m \in 1..MaxBatches }

\* run_check has swept and saved the new tokens (line 129) and is about to call
\* check_all_price_movements; the store holds one row without baseline and n
\* rows with baseline 2
BatchInit ==
    /\ \E n \in BatchLens :
          seen_tokens = <<Row("a", 0, 0)>> \o [ k \in 1..n |-> Row(AddrOf(k), 2, 0) ]
    /\ now = 0
    /\ pc = "process"
    /\ new_tokens = <<>>
    /\ tokens = <<>>
    /\ i = 0
    /\ j = 1
    /\ prices = NoPrices
    /\ all_alerts = <<>>
    /\ price_alerts = <<>>
    /\ requests = <<>>
    /\ running = 1
    /\ swept_at = 0
    /\ call = NoCall
    /\ watch = <<"a", "2x">>
    /\ produced = 0
    /\ delivered = 0
    /\ inserted = 0
    /\ removed = 0
    /\ unpriced = <<>>
    /\ shutdown_event = FALSE
    /\ tasks = NoTasks

BatchNext ==
    \/ LoadTrackable
    \/ ResolveBatchOf(TRUE)
    \/ EvaluateToken
    \/ EndBatch
    \/ Dispatch
    \/ FinishCheck

SpecBatch == BatchInit /\ [][BatchNext]_vars

\* the event loop runs the coroutine on: every await of the cycle returns
SpecBatchFair == SpecBatch /\ WF_vars(BatchNext)

-----------------------------------------------------------------------------
(* birdeye_client.py: BirdeyeClient._get *)

\* frames the interpreter allows the recursion of _get before it raises
\* RecursionError (about 1000 in CPython, which the program does not change)
MaxDepth == 4

\* what requests.get meets: a response (status code, the "message" and
\* "success" of its JSON body), or a RequestException
Response(status_code, message, success) ==
    [ failed |-> FALSE, status_code |-> status_code, message |-> message,
      success |-> success ]

RequestFailed == [ failed |-> TRUE, status_code |-> 0, message |-> "", success |-> FALSE ]

RateLimitResponses ==
    { Response(429, "", FALSE),
      Response(400, "Too Many Requests", FALSE),
      Response(400, "too many", FALSE) }

OtherResponses ==
    { Response(200, "", TRUE),
      Response(200, "Bad token", FALSE),
      Response(401, "", FALSE),
      Response(400, "Bad Request", FALSE),
      Response(500, "", FALSE),
      RequestFailed }

\* upstream answers the first `limited` requests of a call (every request when
\* `always`) with `busy` and the others with `then`
GetUpstreams ==
    { [ always |-> TRUE, limited |-> 0, busy |-> b, then |-> RequestFailed ] :
          b \in RateLimitResponses }
    \cup { [ always |-> FALSE, limited |-> n, busy |-> b, then |-> t ] :
              n \in 0..(MaxDepth + 1), b \in RateLimitResponses, t \in OtherResponses }

\* the response to the n-th request of a call
ResponseTo(upstream, n) ==
    IF upstream.always \/ n <= upstream.limited THEN upstream.busy ELSE upstream.then

\* lines 63-66
is_rate_limited(resp) ==
    \/ resp.status_code = 429
    \/ /\ resp.status_code = 400
       /\ Contains(lower(resp.message), "too many")

\* lines 71-88: what _get returns for a response that is not a rate limit
get_result(resp) ==
    IF resp.failed THEN "None"
    ELSE IF resp.status_code = 401 THEN "None"
    ELSE IF resp.status_code >= 400 THEN "None"
    ELSE IF ~resp.success THEN "None"
    ELSE "data"

GetInputs ==
    { [ op |-> "input", flip |-> FALSE, fn |-> "_get", upstream |-> u ] :
          u \in GetUpstreams }

\* get_token_holders calls _get (line 100)
CallGet ==
    /\ call.op = "input"
    /\ call.fn = "_get"
    /\ call' = [ op |-> "_get", flip |-> FALSE, upstream |-> call.upstream,
                 attempts |-> 0, outcome |-> "running" ]
    /\ UNCHANGED <<seen_tokens, now, cycle_vars, history_vars, unpriced>>
    /\ UNCHANGED main_vars

\* one invocation of _get, lines 44-88: the request, and on a rate limit the
\* sleep and the call of itself, which raises RecursionError when the
\* interpreter has no frame left
SendRequest ==
    /\ call.op = "_get"
    /\ call.outcome = "running"
    /\ LET n == call.attempts + 1
           resp == ResponseTo(call.upstream, n)
       IN  call' = [ call EXCEPT
                       !.flip = ~@,
                       !.attempts = n,
                       !.outcome = IF resp.failed \/ ~is_rate_limited(resp)
                                   THEN get_result(resp)
                                   ELSE IF n >= MaxDepth THEN "RecursionError"
                                   ELSE "running" ]
    /\ UNCHANGED <<seen_tokens, now, cycle_vars, history_vars, unpriced>>
    /\ UNCHANGED main_vars

GetInit ==
    /\ seen_tokens = <<>>
    /\ now = 0
    /\ pc = "idle"
    /\ new_tokens = <<>>
    /\ tokens = <<>>
    /\ i = 0
    /\ j = 1
    /\ prices = NoPrices
    /\ all_alerts = <<>>
    /\ price_alerts = <<>>
    /\ requests = <<>>
    /\ running = 0
    /\ swept_at = 0
    /\ call \in GetInputs
    /\ watch = <<"a", "2x">>
    /\ produced = 0
    /\ delivered = 0
    /\ inserted = 0
    /\ removed = 0
    /\ unpriced = <<>>
    /\ shutdown_event = FALSE
    /\ tasks = NoTasks

GetNext ==
    \/ CallGet
    \/ SendRequest

SpecGet == GetInit /\ [][GetNext]_vars

-----------------------------------------------------------------------------
(* main.py: main, poll_loop, the command listener and the shutdown signal; *)
(* run_check is one step from its call to its return                       *)

\* the count of run_check calls stops here
MaxChecks == 3

\* SIGINT or SIGTERM arrives: signal_handler, lines 38-41
Signal ==
    /\ tasks.main = "gather"
    /\ ~shutdown_event
    /\ shutdown_event' = TRUE
    /\ UNCHANGED <<seen_tokens, now, cycle_vars, call, history_vars, unpriced, tasks>>

\* poll_loop line 75: send_startup_message returns
SendStartup ==
    /\ tasks.poll_loop = "startup"
    /\ tasks' = [ tasks EXCEPT !.poll_loop = "initial" ]
    /\ UNCHANGED <<seen_tokens, now, cycle_vars, call, history_vars, unpriced,
                   shutdown_event>>

\* poll_loop lines 78 and 98: run_check is called
StartCheck ==
    /\ tasks.poll_loop \in {"initial", "due"}
    /\ tasks' = [ tasks EXCEPT !.poll_loop = "checking",
                               !.checks = IF @ < MaxChecks THEN @ + 1 ELSE @ ]
    /\ pc' = "discover"
    /\ running' = running + 1
    /\ UNCHANGED <<seen_tokens, now, new_tokens, tokens, i, j, prices, all_alerts,
                   price_alerts, requests, swept_at, call, history_vars, unpriced,
                   shutdown_event>>

\* run_check returns, from its last statement or from its except clause
EndCheck ==
    /\ tasks.poll_loop = "checking"
    /\ tasks' = [ tasks EXCEPT !.poll_loop = "test" ]
    /\ pc' = "idle"
    /\ running' = running - 1
    /\ UNCHANGED <<seen_tokens, now, new_tokens, tokens, i, j, prices, all_alerts,
                   price_alerts, requests, swept_at, call, history_vars, unpriced,
                   shutdown_event>>

\* poll_loop lines 80-85: the test of the while loop, then the wait when the
\* next poll time is still ahead (wait_seconds > 0) and run_check at once when
\* the hour has turned between the two readings of the clock
LoopTest ==
    /\ tasks.poll_loop = "test"
    /\ \/ /\ shutdown_event
          /\ tasks' = [ tasks EXCEPT !.poll_loop = "exited" ]
       \/ /\ ~shutdown_event
          /\ \E next \in {"waiting", "due"} :
                tasks' = [ tasks EXCEPT !.poll_loop = next ]
    /\ UNCHANGED <<seen_tokens, now, cycle_vars, call, history_vars, unpriced,
                   shutdown_event>>

\* poll_loop lines 89-94: shutdown_event.wait() returns and the loop breaks
WaitShutdown ==
    /\ tasks.poll_loop = "waiting"
    /\ shutdown_event
    /\ tasks' = [ tasks EXCEPT !.poll_loop = "exited" ]
    /\ UNCHANGED <<seen_tokens, now, cycle_vars, call, history_vars, unpriced,
                   shutdown_event>>

\* poll_loop lines 95-96: the wait times out
WaitTimeout ==
    /\ tasks.poll_loop = "waiting"
    /\ ~shutdown_event
    /\ tasks' = [ tasks EXCEPT !.poll_loop = "due" ]
    /\ UNCHANGED <<seen_tokens, now, cycle_vars, call, history_vars, unpriced,
                   shutdown_event>>

\* run_command_listener lines 84-100: without a bot token it returns; with one
\* it starts the application, and an exception of that start is caught and
\* ends the coroutine
StartListener ==
    /\ tasks.run_command_listener = "start"
    /\ \E next \in {"returned", "polling"} :
          tasks' = [ tasks EXCEPT !.run_command_listener = next ]
    /\ UNCHANGED <<seen_tokens, now, cycle_vars, call, history_vars, unpriced,
                   shutdown_event>>

\* run_command_listener lines 103-104: one more "await asyncio.sleep(1)" of
\* the loop "while True", which reads no flag and has no exit
ListenerSleeps ==
    /\ tasks.run_command_listener \in {"polling", "sleeping"}
    /\ tasks' = [ tasks EXCEPT !.run_command_listener =
                     IF @ = "polling" THEN "sleeping" ELSE "polling" ]
    /\ UNCHANGED <<seen_tokens, now, cycle_vars, call, history_vars, unpriced,
                   shutdown_event>>

\* main lines 205-211: asyncio.gather returns when both coroutines have ended
MainReturns ==
    /\ tasks.main = "gather"
    /\ tasks.poll_loop = "exited"
    /\ tasks.run_command_listener = "returned"
    /\ tasks' = [ tasks EXCEPT !.main = "returned" ]
    /\ UNCHANGED <<seen_tokens, now, cycle_vars, call, history_vars, unpriced,
                   shutdown_event>>

MainProgress ==
    \/ SendStartup
    \/ StartCheck
    \/ EndCheck
    \/ LoopTest
    \/ WaitShutdown
    \/ WaitTimeout
    \/ StartListener
    \/ ListenerSleeps
    \/ MainReturns

MainNext == Signal \/ MainProgress

SpecMain == ApiInit /\ [][MainNext]_vars

\* the event loop runs every coroutine that can go on, and every await of
\* poll_loop and run_check returns
SpecMainFair ==
    /\ SpecMain
    /\ WF_vars(SendStartup \/ StartCheck \/ EndCheck \/ LoopTest \/ WaitShutdown
                   \/ WaitTimeout \/ MainReturns)
    /\ WF_vars(StartListener \/ ListenerSleeps)

-----------------------------------------------------------------------------
(* Properties *)

\* the milestone table of the specification: label -> multiplier, in tenths
ClaimTenths ==
    [ l \in {"+50%", "2x", "5x", "10x"} |->
        CASE l = "+50%" -> 15 [] l = "2x" -> 20 [] l = "5x" -> 50 [] l = "10x" -> 100 ]

\* the labels stored in a milestones_hit column, in stored order
LabelList(milestones_hit) == IF milestones_hit = "" THEN <<>> ELSE split(milestones_hit)

Occurrences(seq, x) == Cardinality({ k \in DOMAIN seq : seq[k] = x })

\* C1: while a token's row stays in the store, at most one event carrying a
\* given label is returned by check_price_milestones and at most one alert for
\* the (token, label) pair is delivered, whatever fails in a cycle; and
\* check_price_milestones never yields a label the store already holds.
C1_AtMostOncePerLabel ==
    /\ produced <= 1
    /\ delivered <= 1
    /\ call.op = "check_price_milestones" =>
           Range(call.new) \cap hit_set(call.stored) = {}

\* the watched alert was delivered, and a later cycle evaluates the token again
\* at a price above the watched threshold without a new event
C1_Witness ==
    /\ produced = 1
    /\ delivered = 1
    /\ call.op = "check_price_milestones"
    /\ call.token.token_address = watch[1]
    /\ watch[2] \in hit_set(call.stored)
    /\ call.current_price * 10 >= ClaimTenths[watch[2]] * call.token.alert_price
    /\ call.outcome = "nothing"

\* C2: no step of the program removes a label from the milestones_hit of a row
\* that stays in the store: the new set contains the old one and is no smaller.
C2_MilestonesOnlyGrow ==
    [][ \A k \in DOMAIN seen_tokens : \A n \in DOMAIN seen_tokens' :
          ( /\ seen_tokens'[n].token_address = seen_tokens[k].token_address
            /\ seen_tokens'[n].milestones_hit # seen_tokens[k].milestones_hit ) =>
              /\ hit_set(seen_tokens[k].milestones_hit)
                     \subseteq hit_set(seen_tokens'[n].milestones_hit)
              /\ Cardinality(hit_set(seen_tokens[k].milestones_hit))
                     <= Cardinality(hit_set(seen_tokens'[n].milestones_hit)) ]_vars

\* "+50%" was announced alone in one cycle and a later cycle added the rest
C2_Witness ==
    /\ watch[2] = "+50%"
    /\ produced = 1
    /\ HasRow(seen_tokens, watch[1])
    /\ RowOf(seen_tokens, watch[1]).milestones_hit = "+50%,2x,5x,10x"

\* C3: a call update_milestone_hit(address, label) leaves the label exactly once
\* in the token's milestones_hit: it appends a label that was absent, changes
\* nothing when the label was present, and touches no other label, column or row.
C3_UpdateIdempotentExact ==
    [][ call'.op = "update_milestone_hit" =>
          /\ DOMAIN seen_tokens' = DOMAIN seen_tokens
          /\ \A k \in DOMAIN seen_tokens :
                LET old == seen_tokens[k]
                    new == seen_tokens'[k]
                    before == LabelList(old.milestones_hit)
                    after == LabelList(new.milestones_hit)
                IN  IF old.token_address = lower(call'.token_address)
                    THEN /\ Occurrences(after, call'.milestone) = 1
                         /\ IF Occurrences(before, call'.milestone) = 0
                            THEN after = Append(before, call'.milestone)
                            ELSE new = old
                         /\ [ new EXCEPT !.milestones_hit = old.milestones_hit ] = old
                    ELSE new = old ]_vars

\* a call for a label that the row already held beside another label
C3_Witness ==
    /\ call.op = "update_milestone_hit"
    /\ call.milestone \in hit_set(call.stored)
    /\ Len(LabelList(call.stored)) >= 2
    /\ HasRow(seen_tokens, lower(call.token_address))
    /\ RowOf(seen_tokens, lower(call.token_address)).milestones_hit = call.stored

\* C4: for positive prices the new labels are exactly the labels of the table
\* whose threshold is <= current/baseline and that are not already hit, in
\* ascending threshold order, and the announced label is the last of them;
\* a multiplier >= 10 with nothing hit gives all four with "10x" announced,
\* a multiplier of 1.4 gives none.
C4_EvaluatorExact ==
    ( /\ call.op = "check_price_milestones"
      /\ call.token.alert_price > 0
      /\ call.current_price > 0 ) =>
        LET baseline == call.token.alert_price
            current == call.current_price
            already_hit == hit_set(call.token.milestones_hit)
            crossed == { l \in DOMAIN ClaimTenths :
                             /\ ClaimTenths[l] * baseline <= current * 10
                             /\ l \notin already_hit }
        IN  /\ Range(call.new) = crossed
            /\ \A p, q \in DOMAIN call.new :
                   p < q => ClaimTenths[call.new[p]] < ClaimTenths[call.new[q]]
            /\ crossed # {} =>
                   /\ call.announced \in crossed
                   /\ \A l \in crossed : ClaimTenths[l] <= ClaimTenths[call.announced]
            /\ (current >= 10 * baseline /\ already_hit = {}) =>
                   /\ call.new = <<"+50%", "2x", "5x", "10x">>
                   /\ call.announced = "10x"
            /\ (current * 10 = 14 * baseline) => call.new = <<>>

\* baseline 2, current 20, nothing hit: all four labels, "10x" announced
C4_Witness ==
    /\ call.op = "check_price_milestones"
    /\ call.token.alert_price = 2
    /\ call.current_price = 20
    /\ call.token.milestones_hit = ""
    /\ Len(call.new) = 4
    /\ call.announced = "10x"

\* C5: a token whose baseline price is not positive is never in the trackable
\* list and never given to check_price_milestones, no event carries it and its
\* milestones_hit stays empty; no price that is not positive is evaluated.
C5_NoBaselineNoEvaluation ==
    /\ \A k \in DOMAIN tokens : tokens[k].alert_price > 0
    /\ \A k \in DOMAIN seen_tokens :
           seen_tokens[k].alert_price <= 0 => seen_tokens[k].milestones_hit = ""
    /\ \A a \in DOMAIN prices : prices[a] > 0
    /\ call.op = "check_price_milestones" =>
           call.token.alert_price > 0 /\ call.current_price > 0
    /\ \A k \in DOMAIN all_alerts :
           all_alerts[k].alert_price > 0 /\ all_alerts[k].current_price > 0
    /\ \A k \in DOMAIN price_alerts :
           price_alerts[k].alert_price > 0 /\ price_alerts[k].current_price > 0
    /\ \A k \in DOMAIN seen_tokens :
           LET token == [ token_address  |-> seen_tokens[k].token_address,
                          alert_price    |-> seen_tokens[k].alert_price,
                          milestones_hit |-> seen_tokens[k].milestones_hit ]
           IN  /\ \A c \in {-1, 0} : new_milestones(token, c) = <<>>
               /\ token.alert_price <= 0 =>
                      \A c \in {3, 20} : new_milestones(token, c) = <<>>

\* a batch was evaluated to its end and produced an alert while a row without
\* baseline was in the store and upstream quoted a price for its address
C5_Witness ==
    /\ pc = "evaluate"
    /\ j > Len(Batch)
    /\ all_alerts # <<>>
    /\ \E k \in DOMAIN seen_tokens :
           /\ seen_tokens[k].alert_price <= 0
           /\ seen_tokens[k].token_address \in DOMAIN prices

\* C6: a call of mark_token_seen changes nothing when a row for the lowercased
\* address exists (price, milestones_hit and timestamps stay as they are);
\* otherwise it adds one row for that address; the store never holds two rows
\* for one address.
C6_MarkSeenInsertsOnlyAbsent ==
    [][ call'.op = "mark_token_seen" =>
          LET address == lower(call'.token_address)
              n == Len(seen_tokens)
          IN  /\ IF HasRow(seen_tokens, address)
                 THEN seen_tokens' = seen_tokens
                 ELSE /\ Len(seen_tokens') = n + 1
                      /\ SubSeq(seen_tokens', 1, n) = seen_tokens
                      /\ seen_tokens'[n + 1].token_address = address
                      /\ seen_tokens'[n + 1].alert_price = call'.alert_price
                      /\ seen_tokens'[n + 1].milestones_hit = ""
              /\ \A p, q \in DOMAIN seen_tokens' :
                     p # q => seen_tokens'[p].token_address # seen_tokens'[q].token_address
      ]_vars

\* "A" is submitted at another price and a later time while the row "a" holds
\* labels, and the row is as it was inserted
C6_Witness ==
    /\ call.op = "mark_token_seen"
    /\ call.token_address = "A"
    /\ call.seen_before
    /\ HasRow(seen_tokens, "a")
    /\ RowOf(seen_tokens, "a").milestones_hit # ""
    /\ RowOf(seen_tokens, "a").alert_price # call.alert_price
    /\ RowOf(seen_tokens, "a").first_seen_at < now

\* C7, as stated: over any run a row for a given address is inserted at most once.
C7_InsertedAtMostOnce == inserted <= 1

\* C7, amended: a row for an address is inserted only while the store holds
\* none, so the store never holds two rows for an address and the address has
\* been inserted at most once more than it has been removed by a sweep.
C7_InsertedOncePerLifetime ==
    /\ inserted <= removed + 1
    /\ CountRows(seen_tokens, watch[1]) <= 1

\* the address was inserted, swept after the expiry window and inserted again
C7_Witness ==
    /\ inserted = 2
    /\ removed = 1
    /\ HasRow(seen_tokens, watch[1])

\* C8: clear_old_tokens(d) removes exactly the rows first seen before now - d,
\* for the instant the statement ran, keeps the others, and returns the number
\* of rows it removed.
C8_ExpiryExactAndCounted ==
    [][ call'.op = "clear_old_tokens" =>
          \E t \in now..now' :
             /\ seen_tokens' =
                    SelectSeq(seen_tokens, LAMBDA r :
                        ~(r.first_seen_at < t - DaysToTicks(call'.days_to_keep)))
             /\ call'.count = Len(seen_tokens) - Len(seen_tokens') ]_vars

\* C9: a call with more than BATCH_SIZE addresses sends nothing upstream.
C9_OversizedBatchRejected ==
    ( /\ call.op = "get_current_prices_batch"
      /\ Len(call.addresses) > BATCH_SIZE ) => call.sent = <<>>

\* C10: for every address quoted in the response, the quote of greatest
\* liquidity, the first of them when several are equal, decides the result:
\* its price is returned when positive, and no other quote's price ever is.
C10_BestLiquidityQuote ==
    ( /\ call.op = "get_current_prices_batch"
      /\ call.addresses # <<>>
      /\ call.upstream.ok ) =>
        LET pairs == call.upstream.pairs
            quoted == { lower(pairs[k].address) : k \in DOMAIN pairs } \ {""}
        IN  /\ DOMAIN call.prices \subseteq quoted
            /\ \A a \in quoted :
                 LET quotes == { k \in DOMAIN pairs : lower(pairs[k].address) = a }
                     top == CHOOSE k \in quotes : \A m \in quotes :
                                \/ pairs[m].liquidity < pairs[k].liquidity
                                \/ pairs[m].liquidity = pairs[k].liquidity /\ k <= m
                 IN  IF pairs[top].priceUsd > 0
                     THEN a \in DOMAIN call.prices /\ call.prices[a] = pairs[top].priceUsd
                     ELSE a \notin DOMAIN call.prices

\* three quotes of one address: liquidity 10 at price 1, then twice liquidity
\* 90 at prices 2 and 1; the first quote of liquidity 90 gives the price
C10_Witness ==
    /\ call.op = "get_current_prices_batch"
    /\ call.addresses # <<>>
    /\ call.upstream.ok
    /\ Len(call.upstream.pairs) = 3
    /\ \A k \in 1..3 : lower(call.upstream.pairs[k].address) = "a"
    /\ call.upstream.pairs[1].liquidity = 10 /\ call.upstream.pairs[1].priceUsd = 1
    /\ call.upstream.pairs[2].liquidity = 90 /\ call.upstream.pairs[2].priceUsd = 2
    /\ call.upstream.pairs[3].liquidity = 90 /\ call.upstream.pairs[3].priceUsd = 1
    /\ "a" \in DOMAIN call.prices
    /\ call.prices["a"] = 2

\* C11: get_current_prices_batch never ends with an exception; it returns a
\* mapping that is empty when the request or its parsing fails, whose keys are
\* lowercase addresses quoted in the response and whose values are positive;
\* an address without a quote is absent.
C11_AdapterNeverRaises ==
    call.op = "get_current_prices_batch" =>
        /\ ~call.raised
        /\ ~call.upstream.ok => call.prices = NoPrices
        /\ \A a \in DOMAIN call.prices :
              /\ call.prices[a] > 0
              /\ lower(a) = a
              /\ \E k \in DOMAIN call.upstream.pairs :
                    /\ lower(call.upstream.pairs[k].address) = a
                    /\ call.upstream.pairs[k].priceUsd = call.prices[a]

\* the request of a non-empty address list failed and the call returned {}
C11_Witness ==
    /\ call.op = "get_current_prices_batch"
    /\ call.addresses # <<>>
    /\ ~call.upstream.ok
    /\ ~call.raised
    /\ call.prices = NoPrices

\* a batch has just been resolved without any price (upstream failed or
\* answered nothing) and is the n-th batch of a list that has a later batch
UnpricedBatch(n) ==
    /\ pc = "evaluate"
    /\ j = 1
    /\ prices = NoPrices
    /\ i = n * BATCH_SIZE
    /\ i + BATCH_SIZE < Len(tokens)

\* C12: resolving a batch never ends the cycle, whatever upstream does, and it
\* keeps the events collected so far; after a batch resolved without prices the
\* next batch is resolved, and the cycle goes on to hand over its event list
\* unless check_price_milestones raises for a later token.
C12_FailedBatchNeverAborts ==
    /\ [][ (pc = "batch" /\ pc' # "batch") =>
              /\ pc' = "evaluate"
              /\ all_alerts' = all_alerts
              /\ Len(requests') = Len(requests) + 1 ]_vars
    /\ [][ (pc = "evaluate" /\ pc' = "dispatch") => price_alerts' = all_alerts ]_vars
    /\ \A n \in 0..(MaxBatches - 1) :
          /\ UnpricedBatch(n) ~>
                (pc = "evaluate" /\ j = 1 /\ i = (n + 1) * BATCH_SIZE
                     /\ Len(requests) = n + 2)
          /\ UnpricedBatch(n) ~>
                \/ pc = "dispatch"
                \/ pc = "idle" /\ call.op = "check_price_milestones"

\* the request of the first batch failed, the second batch was resolved and
\* gave an event, and the list is at run_check
C12_Witness ==
    /\ pc = "dispatch"
    /\ Len(requests) >= 2
    /\ ~requests[1].answered
    /\ requests[2].answered
    /\ price_alerts # <<>>

\* C13: when the enrichment of a token's event raises, every new label of the
\* token is already recorded in its row.
C13_PersistedBeforeEnrichment ==
    ( /\ call.op = "check_price_milestones"
      /\ call.outcome = "enrichment raised" ) =>
        /\ HasRow(seen_tokens, lower(call.token.token_address))
        /\ Range(call.new) \subseteq
               hit_set(RowOf(seen_tokens, lower(call.token.token_address)).milestones_hit)

\* C14: when the enrichment of one token's event raises, the evaluation goes on
\* with the next token of the batch and the events collected for other tokens
\* stay in the cycle's list.
C14_EnrichmentFailureIsolated ==
    [][ ( /\ pc = "evaluate"
          /\ call'.op = "check_price_milestones"
          /\ call'.outcome = "enrichment raised" ) =>
            /\ pc' = "evaluate"
            /\ j' = j + 1
            /\ all_alerts' = all_alerts
            /\ seen_tokens' = seen_tokens ]_vars

\* C15: a storage error inside a mutating store call stays in that call: the
\* call changes nothing and the cycle goes on with its next step.
C15_StorageErrorContained ==
    [][ /\ ( /\ call'.op = "mark_token_seen"
             /\ call' # call
             /\ ~call'.saved ) =>
               /\ seen_tokens' = seen_tokens
               /\ pc' = pc
        /\ ( /\ pc = "evaluate"
             /\ call'.op = "check_price_milestones"
             /\ call'.outcome = "store raised" ) =>
               /\ pc' = "evaluate"
               /\ j' = j + 1
               /\ all_alerts' = all_alerts ]_vars

\* C16: when the read of the trackable list raises, the cycle ends at once
\* with the store as it was, no batch resolved, no token evaluated and no
\* event kept, run_check has returned and the next cycle can start.
C16_ReadFailureEndsCycleOnly ==
    /\ [][ ( /\ pc = "process"
             /\ call'.op = "get_tokens_for_price_tracking" ) =>
               /\ call'.outcome = "raised"
               /\ new_tokens = <<>>
               /\ pc' = "idle"
               /\ seen_tokens' = seen_tokens
               /\ running' = 0 ]_vars
    /\ [] ( call.op = "get_tokens_for_price_tracking" =>
               /\ pc = "idle"
               /\ tokens = <<>>
               /\ requests = <<>>
               /\ all_alerts = <<>>
               /\ price_alerts = <<>>
               /\ ENABLED SweepExpired )

\* the read failed in a cycle that had saved a token
C16_Witness ==
    /\ call = Raised("get_tokens_for_price_tracking")
    /\ pc = "idle"
    /\ seen_tokens # <<>>
    /\ inserted = 1

\* C17: at most one invocation of run_check is in progress; one is in progress
\* exactly while the cycle is between its sweep and its return, and a cycle
\* starts only when none is in progress, however long the previous one took.
C17_CyclesNeverOverlap ==
    /\ [] ( /\ running \in {0, 1}
            /\ running = 1 <=> pc # "idle" )
    /\ [][ pc' = "discover" => (pc = "idle" /\ running = 0 /\ running' = 1) ]_vars

\* a cycle that has lasted as long as a wait between two cycles is still the
\* only one in progress
C17_Witness ==
    /\ running = 1
    /\ pc = "evaluate"
    /\ now - swept_at >= PollStep * TicksPerDay

\* the events of a list that carry the address of a token
EventsOf(alerts, token) ==
    { k \in DOMAIN alerts : alerts[k].address = token.token_address }

\* the row of a token of the snapshot holds labels the snapshot does not
Gained(db, token) ==
    /\ HasRow(db, lower(token.token_address))
    /\ hit_set(RowOf(db, lower(token.token_address)).milestones_hit)
           # hit_set(token.milestones_hit)

\* C18: when check_all_price_movements returns its list, the list holds exactly
\* one event for every token of the snapshot whose row gained labels in the
\* cycle, and nothing else.
C18_ReturnedListIsCyclesEvents ==
    [][ (pc # "dispatch" /\ pc' = "dispatch") =>
          /\ \A k \in DOMAIN tokens' :
                Cardinality(EventsOf(price_alerts', tokens'[k]))
                    = IF Gained(seen_tokens', tokens'[k]) THEN 1 ELSE 0
          /\ \A n \in DOMAIN price_alerts' :
                \E k \in DOMAIN tokens' :
                    price_alerts'[n].address = tokens'[k].token_address ]_vars

\* two tokens were evaluated, the row of the second gained labels and the
\* returned list holds its event only
C18_Witness ==
    /\ pc = "dispatch"
    /\ Len(tokens) = 2
    /\ ~Gained(seen_tokens, tokens[1])
    /\ Gained(seen_tokens, tokens[2])
    /\ Len(price_alerts) = 1
    /\ price_alerts[1].address = tokens[2].token_address

\* the retention window, in ticks
Retention == HoursToTicks(TOKEN_EXPIRY_HOURS)

\* the row of a token of the snapshot is older than the retention window at t
PastRetention(db, token, t) ==
    /\ HasRow(db, lower(token.token_address))
    /\ RowOf(db, lower(token.token_address)).first_seen_at < t - Retention

\* no row is deleted on the step
NoRowRemoved ==
    \A k \in DOMAIN seen_tokens : HasRow(seen_tokens', seen_tokens[k].token_address)

RECURSIVE Flatten(_)
\* the address lists of the calls, one after the other
Flatten(calls) ==
    IF calls = <<>> THEN <<>> ELSE Head(calls).addresses \o Flatten(Tail(calls))

\* ceil(n / BATCH_SIZE)
BatchCount(n) == (n + BATCH_SIZE - 1) \div BATCH_SIZE

\* C20: the calls of get_current_prices_batch in a cycle take contiguous slices
\* of the trackable list in order, each of 1..BATCH_SIZE addresses and all but
\* the last of exactly BATCH_SIZE; when the list is handed over every token has
\* been in exactly one call and there was one call per batch (none for an
\* empty list).
C20_BatchesPartitionTheList ==
    LET addresses == [ k \in DOMAIN tokens |-> tokens[k].token_address ]
        n == Len(tokens)
    IN  /\ Len(requests) <= BatchCount(n)
        /\ \A b \in DOMAIN requests :
              /\ requests[b].addresses =
                     SubSeq(addresses, (b - 1) * BATCH_SIZE + 1,
                            IF b * BATCH_SIZE < n THEN b * BATCH_SIZE ELSE n)
              /\ Len(requests[b].addresses) \in 1..BATCH_SIZE
              /\ b < BatchCount(n) => Len(requests[b].addresses) = BATCH_SIZE
        /\ pc = "dispatch" =>
              /\ Len(requests) = BatchCount(n)
              /\ Flatten(requests) = addresses

\* a list of two full batches and one token was handed over after three calls,
\* the last with one address
C20_Witness ==
    /\ pc = "dispatch"
    /\ Len(tokens) = 2 * BATCH_SIZE + 1
    /\ Len(requests) = 3
    /\ Len(requests[1].addresses) = BATCH_SIZE
    /\ Len(requests[3].addresses) = 1

\* C21: a call of the price adapter is made only when no batch is being
\* evaluated; every call but the first of a cycle directly follows a sleep of
\* BATCH_DELAY that began when every token of the earlier batch had been
\* evaluated; and no sleep follows the last batch.
C21_DelayBetweenBatches ==
    /\ [][ (Len(requests') = Len(requests) + 1) =>
              /\ pc = "batch"
              /\ requests # <<>> => call = SleepCall(BATCH_DELAY) ]_vars
    /\ [][ (call'.op = "sleep" /\ call' # call) =>
              /\ pc = "evaluate"
              /\ j > Len(Batch)
              /\ call'.delay = BATCH_DELAY
              /\ pc' = "batch"
              /\ Len(requests) < BatchCount(Len(tokens)) ]_vars
    /\ [][ (pc = "evaluate" /\ pc' # "evaluate" /\ pc' # "idle") =>
              IF Len(requests) < BatchCount(Len(tokens))
              THEN call'.op = "sleep" /\ pc' = "batch"
              ELSE call'.op # "sleep" /\ pc' = "dispatch" ]_vars
    /\ [] ( pc = "dispatch" => call.op # "sleep" )

\* the third call of a cycle has just been made, after the second sleep
C21_Witness ==
    /\ pc = "evaluate"
    /\ j = 1
    /\ Len(requests) = 3
    /\ call = SleepCall(BATCH_DELAY)

\* the step passes over the next token of the batch because no price was
\* resolved for its address
PassesUnpriced ==
    /\ pc = "evaluate"
    /\ j <= Len(Batch)
    /\ lower(Batch[j].token_address) \notin DOMAIN prices
    /\ j' = j + 1

\* the step reads the trackable list
ReadsTrackable == pc = "process" /\ pc' \in {"batch", "dispatch"}

\* the token that the previous cycle left unpriced is the next of the batch
RetriesUnpriced ==
    /\ pc = "evaluate"
    /\ j <= Len(Batch)
    /\ unpriced # <<>>
    /\ unpriced[1].carried
    /\ Batch[j].token_address = unpriced[1].token.token_address

\* C22, as stated: a token without a resolved price is passed over without an
\* evaluation, an event, or a change of the store; it is in the trackable list
\* read by the next cycle, and is evaluated there with the same baseline and
\* milestones_hit.
C22_UnpricedRetriedNextCycle ==
    /\ [][ PassesUnpriced =>
              /\ seen_tokens' = seen_tokens
              /\ all_alerts' = all_alerts
              /\ call'.op # "check_price_milestones" ]_vars
    /\ [][ (ReadsTrackable /\ unpriced # <<>>) =>
              \E k \in DOMAIN tokens' : tokens'[k] = unpriced[1].token ]_vars
    /\ [] ( RetriesUnpriced => Batch[j] = unpriced[1].token )

\* C22, amended: the same, for a token whose row the sweep of the next cycle
\* did not delete.
C22_UnpricedRetriedUnlessSwept ==
    /\ [][ PassesUnpriced =>
              /\ seen_tokens' = seen_tokens
              /\ all_alerts' = all_alerts
              /\ call'.op # "check_price_milestones" ]_vars
    /\ [][ (ReadsTrackable /\ unpriced # <<>> /\ ~unpriced[1].swept) =>
              \E k \in DOMAIN tokens' : tokens'[k] = unpriced[1].token ]_vars
    /\ [] ( (RetriesUnpriced /\ ~unpriced[1].swept) => Batch[j] = unpriced[1].token )

\* the token that the previous cycle left unpriced, with a label already
\* recorded, is about to be evaluated at a resolved price
C22_Witness ==
    /\ RetriesUnpriced
    /\ ~unpriced[1].swept
    /\ Batch[j] = unpriced[1].token
    /\ unpriced[1].token.milestones_hit # ""
    /\ lower(Batch[j].token_address) \in DOMAIN prices

\* every label of the table whose threshold the price reaches is in the
\* token's milestones_hit
NothingNew(token, current_price) ==
    \A l \in DOMAIN ClaimTenths :
        ClaimTenths[l] * token.alert_price <= current_price * 10 =>
            l \in Range(LabelList(token.milestones_hit))

\* the step evaluates the next token of the batch at its resolved price
Evaluates ==
    /\ pc = "evaluate"
    /\ j <= Len(Batch)
    /\ lower(Batch[j].token_address) \in DOMAIN prices
    /\ j' # j \/ pc' # pc

\* the price at which the next token of the batch is evaluated
ResolvedPrice == prices[lower(Batch[j].token_address)]

\* C23: when the evaluation of a token yields no new label, the call returns
\* before the enrichment and the smart-wallet scan, no event is added, the
\* store is not written and the batch goes on.
C23_NothingNewNothingDone ==
    [][ (Evaluates /\ NothingNew(Batch[j], ResolvedPrice)) =>
          /\ call'.op = "check_price_milestones"
          /\ call'.outcome = "nothing"
          /\ call'.new = <<>>
          /\ ~call'.enriched
          /\ ~call'.scanned
          /\ all_alerts' = all_alerts
          /\ seen_tokens' = seen_tokens
          /\ pc' = "evaluate"
          /\ j' = j + 1 ]_vars

\* a token that holds "+50%" and "2x" was evaluated at a price between 2 and 5
\* times its baseline while the cycle holds an event of another token
C23_Witness ==
    /\ pc = "evaluate"
    /\ call.op = "check_price_milestones"
    /\ call.outcome = "nothing"
    /\ call.token.milestones_hit = "+50%,2x"
    /\ call.current_price * 10 >= ClaimTenths["2x"] * call.token.alert_price
    /\ all_alerts # <<>>

\* the labels of the table that a token newly crosses at a price
Crossed(token, current_price) ==
    { l \in DOMAIN ClaimTenths :
          /\ ClaimTenths[l] * token.alert_price <= current_price * 10
          /\ l \notin Range(LabelList(token.milestones_hit)) }

\* the labels stored in the row of an address
StoredLabels(db, address) == Range(LabelList(RowOf(db, address).milestones_hit))

\* C24: when the evaluation of a token gives an event, every label the token
\* newly crossed is in its row after that step, the announced one and the
\* others alike; and once a label is in the row of a token no later step gives
\* an event carrying it, whatever the later prices are.
C24_AllCrossedLabelsRecorded ==
    /\ [][ (Len(all_alerts') > Len(all_alerts) /\ Evaluates) =>
              /\ HasRow(seen_tokens', lower(Batch[j].token_address))
              /\ Crossed(Batch[j], ResolvedPrice) \subseteq
                     StoredLabels(seen_tokens', lower(Batch[j].token_address)) ]_vars
    /\ [][ (produced' > produced) =>
              ~( /\ HasRow(seen_tokens, watch[1])
                 /\ watch[2] \in StoredLabels(seen_tokens, watch[1]) ) ]_vars

\* the row holds the four labels and "2x" was never announced (the price went
\* past it to a higher label), and an evaluation at 2 times the baseline gave
\* no event
C24_Witness ==
    /\ watch[2] = "2x"
    /\ produced = 0
    /\ call.op = "check_price_milestones"
    /\ call.token.token_address = watch[1]
    /\ call.token.milestones_hit = "+50%,2x,5x,10x"
    /\ call.current_price * 10 = ClaimTenths["2x"] * call.token.alert_price
    /\ call.outcome = "nothing"

\* the token of the snapshot that an event is about
TokenOf(alert) ==
    tokens[CHOOSE k \in DOMAIN tokens : tokens[k].token_address = alert.address]

\* C25: the events of a cycle are about different tokens of the snapshot, and
\* the label of each is, among the labels its token newly crosses at the event's
\* price, the one of greatest threshold; the price is at least the threshold of
\* the label times the baseline; the thresholds of MILESTONES increase strictly.
C25_OneEventHighestLabel ==
    /\ \A p, q \in DOMAIN MILESTONES :
           p < q => MILESTONES[p].tenths < MILESTONES[q].tenths
    /\ \A p, q \in DOMAIN all_alerts :
           p # q => all_alerts[p].address # all_alerts[q].address
    /\ \A k \in DOMAIN all_alerts :
           LET alert == all_alerts[k]
               crossed == Crossed(TokenOf(alert), alert.current_price)
           IN  /\ \E n \in DOMAIN tokens : tokens[n].token_address = alert.address
               /\ alert.alert_price = TokenOf(alert).alert_price
               /\ alert.milestone \in crossed
               /\ \A l \in crossed : ClaimTenths[l] <= ClaimTenths[alert.milestone]
               /\ alert.current_price * 10 >= ClaimTenths[alert.milestone] * alert.alert_price
    /\ \A k \in DOMAIN price_alerts : \E n \in DOMAIN all_alerts :
           price_alerts[k] = all_alerts[n]

\* a cycle holds two events: "10x" for a token that crossed the four labels
\* at once and "+50%" for another
C25_Witness ==
    /\ Len(all_alerts) = 2
    /\ all_alerts[1].milestone = "10x"
    /\ Cardinality(Crossed(TokenOf(all_alerts[1]), all_alerts[1].current_price)) = 4
    /\ all_alerts[2].milestone = "+50%"

\* C26: under an upstream that answers every request with a rate-limit
\* response, _get gives up by itself and returns: it does not go on calling
\* itself until the interpreter has no frame left.
C26_RetryBounded ==
    (call.op = "_get" /\ call.upstream.always) => call.outcome # "RecursionError"

\* the labels of the milestone table, by ascending threshold
TableLabels == <<"+50%", "2x", "5x", "10x">>

IsTablePrefix(labels) ==
    /\ Len(labels) <= Len(TableLabels)
    /\ labels = SubSeq(TableLabels, 1, Len(labels))

\* C27: in every state the milestones_hit of every row lists a prefix of the
\* milestone table in table order, also after a cycle that was interrupted
\* between two calls of update_milestone_hit; and the label of every event has
\* a greater threshold than every label the row of its token held before.
C27_HitIsPrefixOfTable ==
    /\ [] ( \A k \in DOMAIN seen_tokens :
                IsTablePrefix(LabelList(seen_tokens[k].milestones_hit)) )
    /\ [][ (Len(all_alerts') > Len(all_alerts)) =>
              LET alert == all_alerts'[Len(all_alerts')]
              IN  \A l \in StoredLabels(seen_tokens, lower(alert.address)) :
                      ClaimTenths[l] < ClaimTenths[alert.milestone] ]_vars

\* a token crossed the four labels at once and the third update_milestone_hit
\* raised: the row holds "+50%,2x"
C27_Witness ==
    /\ call.op = "check_price_milestones"
    /\ call.outcome = "store raised"
    /\ call.stored = ""
    /\ Len(call.new) = 4
    /\ HasRow(seen_tokens, call.token.token_address)
    /\ RowOf(seen_tokens, call.token.token_address).milestones_hit = "+50%,2x"

\* the step belongs to check_all_price_movements
InTrackingPass ==
    \/ pc \in {"batch", "evaluate"}
    \/ pc = "process" /\ new_tokens = <<>>

\* C28: a step of check_all_price_movements that changes the store keeps
\* every row in its place and changes only the milestones_hit of the token
\* being evaluated, by adding labels; and no step of the program changes the
\* baseline price of a row that stays in the store.
C28_PassOnlyAddsLabels ==
    /\ [][ (seen_tokens' # seen_tokens /\ InTrackingPass) =>
              /\ pc = "evaluate"
              /\ j <= Len(Batch)
              /\ Len(seen_tokens') = Len(seen_tokens)
              /\ \A k \in DOMAIN seen_tokens :
                    LET old == seen_tokens[k]
                        new == seen_tokens'[k]
                    IN  /\ [ new EXCEPT !.milestones_hit = old.milestones_hit ] = old
                        /\ new # old =>
                              /\ old.token_address = lower(Batch[j].token_address)
                              /\ hit_set(old.milestones_hit)
                                     \subseteq hit_set(new.milestones_hit) ]_vars
    /\ [][ (seen_tokens' # seen_tokens) =>
              \A k \in DOMAIN seen_tokens : \A n \in DOMAIN seen_tokens' :
                  ( /\ seen_tokens'[n].token_address = seen_tokens[k].token_address
                    /\ seen_tokens'[n].first_seen_at = seen_tokens[k].first_seen_at ) =>
                      seen_tokens'[n].alert_price = seen_tokens[k].alert_price ]_vars

\* the pass has just recorded labels for the second of two rows, in a later
\* cycle than the one that recorded labels for the first
C28_Witness ==
    /\ pc = "evaluate"
    /\ call.op = "check_price_milestones"
    /\ call.outcome = "alert"
    /\ Len(seen_tokens) = 2
    /\ lower(call.token.token_address) = seen_tokens[2].token_address
    /\ seen_tokens[2].milestones_hit # ""
    /\ seen_tokens[1].milestones_hit # ""
    /\ seen_tokens[1].milestones_hit = tokens[1].milestones_hit

\* C29: when the smart-wallet scan of a token raises, check_price_milestones
\* does not: it goes on to record the labels, and unless a store write then
\* fails it returns the event with smart_wallets = 0, every newly crossed label
\* is in the row and the batch goes on with its next token.
C29_ScanErrorContained ==
    [][ ( /\ call' # call
          /\ call'.op = "check_price_milestones"
          /\ call'.scan.raised ) =>
            /\ call'.scanned
            /\ call'.outcome \in {"alert", "store raised"}
            /\ call'.outcome = "alert" =>
                  /\ pc' = "evaluate"
                  /\ j' = j + 1
                  /\ Len(all_alerts') = Len(all_alerts) + 1
                  /\ all_alerts'[Len(all_alerts')].address = call'.token.token_address
                  /\ all_alerts'[Len(all_alerts')].smart_wallets = 0
                  /\ Crossed(call'.token, call'.current_price) \subseteq
                         StoredLabels(seen_tokens', lower(call'.token.token_address)) ]_vars

\* the scan of the first token raised and its event says 0 wallets; the second
\* token of the batch was then evaluated and its scan counted a wallet
C29_Witness ==
    /\ pc = "evaluate"
    /\ Len(all_alerts) = 2
    /\ all_alerts[1].address = tokens[1].token_address
    /\ all_alerts[1].smart_wallets = 0
    /\ all_alerts[2].smart_wallets = 1
    /\ call.op = "check_price_milestones"
    /\ ~call.scan.raised

\* no call of run_check begins once shutdown_event is set
NoCheckAfterShutdown == [][ (running' > running) => ~shutdown_event ]_vars

\* a run_check in progress when shutdown_event is set returns
CheckInProgressCompletes == (shutdown_event /\ running = 1) ~> (running = 0)

\* after shutdown_event is set poll_loop ends
PollLoopExits == shutdown_event ~> (tasks.poll_loop = "exited")

\* after shutdown_event is set main returns
MainReturnsAfterShutdown == shutdown_event ~> (tasks.main = "returned")

\* C30: once shutdown_event is set no run_check is started, the one in
\* progress returns, poll_loop ends and main returns, whether or not the
\* command listener is running.
C30_ShutdownStopsProgram ==
    /\ NoCheckAfterShutdown
    /\ CheckInProgressCompletes
    /\ PollLoopExits
    /\ MainReturnsAfterShutdown

====
